---- MODULE Spec2Model ----
(***************************************************************************)
(* State-machine model of the two browser widgets of the repository:       *)
(*   static/js/time_range_picker.js    (quick ranges + range picker)       *)
(*   static/assets/kvjson/kvjson.js    (key/value rows <-> hidden JSON)    *)
(*                                                                         *)
(* Text is modelled as a sequence of one-character strings, so that        *)
(* trimming, lower-casing, formatting and parsing are computed and not     *)
(* assumed.  A Date is a record [kind |-> "date", day, ms] holding the     *)
(* local wall-clock day number (days since 1970-01-01) and the             *)
(* millisecond of that day; the browser's time zone is a fixed offset      *)
(* (no daylight-saving transitions), kept in the variable tz (minutes).    *)
(***************************************************************************)
EXTENDS Integers, Sequences, FiniteSets, TLC

VARIABLES
  \* ---- environment of the page view
  tz,               \* time-zone offset of the browser, minutes east of UTC
  hasRequestSubmit, \* typeof filtersForm.requestSubmit === "function"
  hasLitepicker,    \* window.Litepicker is defined
  \* ---- time_range_picker.js, closure state and DOM fields
  pickerReady,      \* the DOMContentLoaded handler of the picker has run
  currentFrom,      \* let currentFrom (Null or a Date)
  currentTo,        \* let currentTo
  picker,           \* let picker (Null or the Litepicker instance)
  hiddenFrom,       \* #dateFromHidden .value
  hiddenTo,         \* #dateToHidden .value
  fromInput,        \* #timeRangeFromInput .value
  toInput,          \* #timeRangeToInput .value
  summaryLabel,     \* #timeRangeSummaryLabel .textContent
  panelHidden,      \* #timeRangePanel has class "hidden"
  overlayHidden,    \* #timeRangeOverlay has class "hidden"
  \* ---- kvjson.js, one entry per editor of the page
  editors,          \* the editors ([data-kvjson] elements) of the page, in document order
  kvStatus,         \* per editor: "raw" (not initialised), "ready", "failed" (init threw)
  kvRows,           \* per editor: the <tr> rows, each [key, val] (the inputs' values)
  kvHidden,         \* per editor: the hidden input's value
  kvInitial,        \* per editor: the hidden input's value when the page was served
  formBound,        \* form.dataset.kvjsonBound is set (the submit listener is attached)
  \* ---- what the most recent handler did
  lastOp,           \* name of the most recent handler
  lastArg,          \* its inputs (quick-range key and clock reading, edited editor, ...)
  effects,          \* the alert / requestSubmit / submit calls it made, in order
  submitted         \* the form data the browser serialised in it (Null if none)

pickerVars == <<pickerReady, currentFrom, currentTo, picker, hiddenFrom, hiddenTo,
                fromInput, toInput, summaryLabel, panelHidden, overlayHidden>>
kvVars == <<editors, kvStatus, kvRows, kvHidden, kvInitial, formBound>>
envVars == <<tz, hasRequestSubmit, hasLitepicker>>
logVars == <<lastOp, lastArg, effects, submitted>>
vars == <<envVars, pickerVars, kvVars, logVars>>

\* the most rows an editor is given
MaxRows == 2

Null == [kind |-> "null"]
InvalidDate == [kind |-> "invalid"]

(***************************************************************************)
(* Characters and strings                                                  *)
(***************************************************************************)
DigitChars == <<"0", "1", "2", "3", "4", "5", "6", "7", "8", "9">>

IsDigit(c) == \E i \in 1..10 : DigitChars[i] = c

DigitVal(c) == (CHOOSE i \in 1..10 : DigitChars[i] = c) - 1

WhiteSpace == {" ", "\t", "\n"}

UpperChars == <<"A", "B", "C", "D", "E", "F", "G", "H", "I", "J", "K", "L", "M",
                "N", "O", "P", "Q", "R", "S", "T", "U", "V", "W", "X", "Y", "Z">>
LowerChars == <<"a", "b", "c", "d", "e", "f", "g", "h", "i", "j", "k", "l", "m",
                "n", "o", "p", "q", "r", "s", "t", "u", "v", "w", "x", "y", "z">>

\* String.prototype.toLowerCase, one character
LowerChar(c) ==
  IF \E i \in 1..26 : UpperChars[i] = c
  THEN LowerChars[CHOOSE i \in 1..26 : UpperChars[i] = c]
  ELSE c

toLowerCase(s) == [i \in 1..Len(s) |-> LowerChar(s[i])]

RECURSIVE TrimStart(_)
TrimStart(s) ==
  IF s # <<>> /\ Head(s) \in WhiteSpace THEN TrimStart(Tail(s)) ELSE s

RECURSIVE TrimEnd(_)
TrimEnd(s) ==
  IF s # <<>> /\ s[Len(s)] \in WhiteSpace THEN TrimEnd(SubSeq(s, 1, Len(s) - 1)) ELSE s

\* String.prototype.trim
trim(s) == TrimEnd(TrimStart(s))

\* Number -> decimal string, for n >= 0 ("" + n)
RECURSIVE NumToStr(_)
NumToStr(n) ==
  IF n < 10 THEN <<DigitChars[n + 1]>>
  ELSE NumToStr(n \div 10) \o <<DigitChars[(n % 10) + 1]>>

\* decimal digits -> number (the caller checks that all are digits)
RECURSIVE StrToNum(_)
StrToNum(s) ==
  IF s = <<>> THEN 0
  ELSE 10 * StrToNum(SubSeq(s, 1, Len(s) - 1)) + DigitVal(s[Len(s)])

AllDigits(s) == \A i \in 1..Len(s) : IsDigit(s[i])

\* String.prototype.replace(" ", "T"): the first space only
RECURSIVE ReplaceFirstSpace(_)
ReplaceFirstSpace(s) ==
  IF s = <<>> THEN <<>>
  ELSE IF Head(s) = " " THEN <<"T">> \o Tail(s)
  ELSE <<Head(s)>> \o ReplaceFirstSpace(Tail(s))

(***************************************************************************)
(* Date: the calendar arithmetic of the JavaScript Date object.            *)
(* Intermediate results are passed as operator arguments.                  *)
(***************************************************************************)
MsPerDay == 86400000

DaysFromEra(era, yoe, doy) ==
  era * 146097 + yoe * 365 + yoe \div 4 - yoe \div 100 + doy - 719468

DaysFromShifted(yy, mp, d) == DaysFromEra(yy \div 400, yy % 400, (153 * mp + 2) \div 5 + d - 1)

\* days since 1970-01-01 of the civil date y-m-d (m in 1..12)
DaysFromCivil(y, m, d) ==
  DaysFromShifted(IF m <= 2 THEN y - 1 ELSE y, IF m > 2 THEN m - 3 ELSE m + 9, d)

CivilRecord(y0, m, d) == [y |-> IF m <= 2 THEN y0 + 1 ELSE y0, m |-> m, d |-> d]

CivilFromMp(y0, doy, mp) ==
  CivilRecord(y0, IF mp < 10 THEN mp + 3 ELSE mp - 9, doy - (153 * mp + 2) \div 5 + 1)

CivilFromDoy(y0, doy) == CivilFromMp(y0, doy, (5 * doy + 2) \div 153)

CivilFromYoe(era, doe, yoe) ==
  CivilFromDoy(yoe + era * 400, doe - (365 * yoe + yoe \div 4 - yoe \div 100))

CivilFromDoe(era, doe) ==
  CivilFromYoe(era, doe, (doe - doe \div 1460 + doe \div 36524 - doe \div 146096) \div 365)

\* the civil date [y, m, d] of a day number
CivilFromDays(z) == CivilFromDoe((z + 719468) \div 146097, (z + 719468) % 146097)

MkDate(day, ms) == [kind |-> "date", day |-> day, ms |-> ms]

getFullYear(d) == CivilFromDays(d.day).y
getMonth(d)    == CivilFromDays(d.day).m - 1      \* 0 = January
getDate(d)     == CivilFromDays(d.day).d
getDay(d)      == (d.day + 4) % 7                 \* 0 = Sunday; 1970-01-01 was a Thursday
getHours(d)    == d.ms \div 3600000
getMinutes(d)  == (d.ms \div 60000) % 60
getSeconds(d)  == (d.ms \div 1000) % 60

\* MakeDay of ECMAScript: month index and day of month may overflow either way
MakeDay(y, m0, dt) == DaysFromCivil(y + (m0 \div 12), (m0 % 12) + 1, 1) + dt - 1

\* new Date(y, m0, dt): local midnight
NewDateYMD(y, m0, dt) == MkDate(MakeDay(y, m0, dt), 0)

\* d.setDate(dt)
setDate(d, dt) == MkDate(MakeDay(getFullYear(d), getMonth(d), dt), d.ms)

\* d.setHours(h, mi, s, ms)
setHours(d, h, mi, s, ms) == MkDate(d.day, ((h * 60 + mi) * 60 + s) * 1000 + ms)

\* new Date(d.getTime() + delta), delta in milliseconds
AddMs(d, delta) ==
  MkDate(d.day + ((d.ms + delta) \div MsPerDay), (d.ms + delta) % MsPerDay)

\* the relational operators on Dates (comparison of the time values)
DateLE(a, b) == a.day < b.day \/ (a.day = b.day /\ a.ms <= b.ms)
DateGT(a, b) == ~DateLE(a, b)

\* days of month m (1..12) of year y
DaysInMonth(y, m) == MakeDay(y, m, 1) - MakeDay(y, m - 1, 1)

(***************************************************************************)
(* Utility functions of time_range_picker.js                               *)
(***************************************************************************)
\* pad2 without the leading zero
pad2Unpadded(n) == NumToStr(n)

pad2(n) == IF n < 10 THEN <<"0">> \o NumToStr(n) ELSE NumToStr(n)

formatDate(d) ==
  NumToStr(getFullYear(d)) \o <<"-">> \o pad2(getMonth(d) + 1) \o <<"-">> \o pad2(getDate(d))

formatDateTime(d) ==
  formatDate(d) \o <<" ">> \o pad2(getHours(d)) \o <<":">> \o pad2(getMinutes(d))
                \o <<":">> \o pad2(getSeconds(d))

(***************************************************************************)
(* new Date(string).  The ISO forms the widgets produce and accept:        *)
(*   "YYYY-MM-DD"            date only: midnight UTC                       *)
(*   "YYYY-MM-DDTHH:MM:SS"   no offset: local wall-clock time              *)
(* Any other text gives an Invalid Date.                                   *)
(***************************************************************************)
Field(s, a, b) == StrToNum(SubSeq(s, a, b))

IsoDateOk(s) ==
  /\ Len(s) >= 10
  /\ AllDigits(SubSeq(s, 1, 4)) /\ s[5] = "-"
  /\ AllDigits(SubSeq(s, 6, 7)) /\ s[8] = "-"
  /\ AllDigits(SubSeq(s, 9, 10))
  /\ Field(s, 6, 7) \in 1..12
  /\ Field(s, 9, 10) >= 1
  /\ Field(s, 9, 10) <= DaysInMonth(Field(s, 1, 4), Field(s, 6, 7))

IsoDay(s) == DaysFromCivil(Field(s, 1, 4), Field(s, 6, 7), Field(s, 9, 10))

IsoTimeOk(s) ==
  /\ Len(s) = 19
  /\ s[11] = "T"
  /\ AllDigits(SubSeq(s, 12, 13)) /\ s[14] = ":"
  /\ AllDigits(SubSeq(s, 15, 16)) /\ s[17] = ":"
  /\ AllDigits(SubSeq(s, 18, 19))
  /\ Field(s, 12, 13) <= 23
  /\ Field(s, 15, 16) <= 59
  /\ Field(s, 18, 19) <= 59

IsoMs(s) == ((Field(s, 12, 13) * 60 + Field(s, 15, 16)) * 60 + Field(s, 18, 19)) * 1000

\* new Date(s) in a browser whose zone is zone minutes east of UTC
NewDateStr(s, zone) ==
  IF Len(s) = 10 /\ IsoDateOk(s) THEN AddMs(MkDate(IsoDay(s), 0), zone * 60000)
  ELSE IF IsoDateOk(s) /\ IsoTimeOk(s) THEN MkDate(IsoDay(s), IsoMs(s))
  ELSE InvalidDate

\* isNaN(d.getTime())
IsNaNDate(d) == d.kind # "date"

(***************************************************************************)
(* Quick ranges                                                            *)
(***************************************************************************)
K_today == <<"t", "o", "d", "a", "y">>
K_yesterday == <<"y", "e", "s", "t", "e", "r", "d", "a", "y">>
K_this_week == <<"t", "h", "i", "s", "_", "w", "e", "e", "k">>
K_this_week_sp == <<"t", "h", "i", "s", " ", "w", "e", "e", "k">>
K_this_month == <<"t", "h", "i", "s", "_", "m", "o", "n", "t", "h">>
K_this_month_sp == <<"t", "h", "i", "s", " ", "m", "o", "n", "t", "h">>
K_last_12_hours == <<"l", "a", "s", "t", "_", "1", "2", "_", "h", "o", "u", "r", "s">>
K_last_24_hours == <<"l", "a", "s", "t", "_", "2", "4", "_", "h", "o", "u", "r", "s">>
K_last_2_days == <<"l", "a", "s", "t", "_", "2", "_", "d", "a", "y", "s">>
K_last_7_days == <<"l", "a", "s", "t", "_", "7", "_", "d", "a", "y", "s">>

\* a string value s, as getAttribute returns it (it returns null, modelled
\* by Null, when the element has no such attribute)
Text(s) == [kind |-> "text", s |-> s]

\* NormalizeKey without the trim
NormalizeKeyUntrimmed(key) == toLowerCase(IF key.kind = "text" THEN key.s ELSE <<>>)

\* key = (key || "").trim().toLowerCase()
NormalizeKey(key) == toLowerCase(trim(IF key.kind = "text" THEN key.s ELSE <<>>))

\* DayRange with the two times of day exchanged
DayRangeExchanged(from, to) == <<setHours(from, 23, 59, 59, 999), setHours(to, 0, 0, 0, 0)>>

\* from.setHours(0, 0, 0, 0) and to.setHours(23, 59, 59, 999) of the day-based ranges
DayRange(from, to) == <<setHours(from, 0, 0, 0, 0), setHours(to, 23, 59, 59, 999)>>

\* [from, to] of the "today" case and of the default case
TodayRange(now) == DayRange(now, now)

\* "yesterday": to = new Date(from)
YesterdayRange(from) == DayRange(from, from)

\* ThisWeekRange going back one day too many: the week starts on Sunday
ThisWeekRangeFromSunday(now, dayOfWeek) ==
  DayRange(setDate(now, getDate(now) - dayOfWeek), now)

\* "this_week": dayOfWeek is getDay() with Sunday counted as 7
ThisWeekRange(now, dayOfWeek) == DayRange(setDate(now, getDate(now) - (dayOfWeek - 1)), now)

\* ThisMonthRange without the "+ 1": day 0 of now's own month
ThisMonthRangeDayZero(now) ==
  DayRange(NewDateYMD(getFullYear(now), getMonth(now), 1),
           NewDateYMD(getFullYear(now), getMonth(now), 0))

\* "this_month": day 1 of now's month to day 0 of the next month
ThisMonthRange(now) ==
  DayRange(NewDateYMD(getFullYear(now), getMonth(now), 1),
           NewDateYMD(getFullYear(now), getMonth(now) + 1, 0))

\* the switch of computeQuickRange on the normalised key
QuickRangeOf(k, now) ==
  CASE k = K_today -> TodayRange(now)
    [] k = K_yesterday -> YesterdayRange(setDate(now, getDate(now) - 1))
    [] k \in {K_this_week, K_this_week_sp} ->
         ThisWeekRange(now, IF getDay(now) = 0 THEN 7 ELSE getDay(now))
    [] k \in {K_this_month, K_this_month_sp} -> ThisMonthRange(now)
    [] k = K_last_12_hours -> <<AddMs(now, 0 - 12 * 60 * 60 * 1000), now>>
    [] k = K_last_24_hours -> <<AddMs(now, 0 - 24 * 60 * 60 * 1000), now>>
    [] k = K_last_2_days -> DayRange(setDate(now, getDate(now) - 1), now)
    [] k = K_last_7_days -> DayRange(setDate(now, getDate(now) - 6), now)
    [] OTHER -> TodayRange(now)

\* computeQuickRange(key), with the value read by "new Date()" passed as now
computeQuickRange(key, now) == QuickRangeOf(NormalizeKey(key), now)

(***************************************************************************)
(* Range picker: the DOMContentLoaded handler of time_range_picker.js      *)
(***************************************************************************)
Arrow == <<" ", "→", " ">>

\* the label text "<from> → <to>"
RangeLabel(fromText, toText) == fromText \o Arrow \o toText

\* parseDT, second attempt: new Date(s), normalised to the start of its day
parseDTSecond(d) == IF ~IsNaNDate(d) THEN setHours(d, 0, 0, 0, 0) ELSE Null

\* parseDT, first attempt: dt = new Date(s.replace(" ", "T"))
parseDTFirst(dt, s, zone) == IF ~IsNaNDate(dt) THEN dt ELSE parseDTSecond(NewDateStr(s, zone))

\* parseDT of initFromHidden
parseDT(s, zone) == parseDTFirst(NewDateStr(ReplaceFirstSpace(s), zone), s, zone)

\* the Litepicker instance: only the range it displays is modelled
MkPicker(range) == [kind |-> "picker", range |-> range]

\* picker.setDateRange(a, b)
setDateRange(p, a, b) == MkPicker(<<a, b>>)

\* the handler named op, called with arg, made the calls in eff
Log(op, arg, eff) == lastOp' = op /\ lastArg' = arg /\ effects' = eff

\* initFromHidden() once cf and ct are what the two parseDT calls leave in
\* currentFrom and currentTo
initFromHidden(cf, ct) ==
  /\ currentFrom' = cf
  /\ currentTo' = ct
  /\ IF cf # Null /\ ct # Null
     THEN /\ fromInput' = formatDateTime(cf)
          /\ toInput' = formatDateTime(ct)
          /\ summaryLabel' = RangeLabel(formatDateTime(cf), formatDateTime(ct))
     ELSE UNCHANGED <<fromInput, toInput, summaryLabel>>

\* the DOMContentLoaded handler: initFromHidden(), then the listeners are registered
PickerLoad ==
  /\ ~pickerReady
  /\ pickerReady' = TRUE
  /\ initFromHidden(IF hiddenFrom # <<>> THEN parseDT(hiddenFrom, tz) ELSE Null,
                    IF hiddenTo # <<>> THEN parseDT(hiddenTo, tz) ELSE Null)
  /\ Log("pickerLoad", Null, <<>>) /\ submitted' = Null
  /\ UNCHANGED <<picker, hiddenFrom, hiddenTo, panelHidden, overlayHidden>>
  /\ UNCHANGED <<envVars, kvVars>>

\* the calendar library finishes loading (window.Litepicker becomes defined)
LitepickerLoads ==
  /\ ~hasLitepicker
  /\ hasLitepicker' = TRUE
  /\ Log("libraryLoaded", Null, <<>>) /\ submitted' = Null
  /\ UNCHANGED <<tz, hasRequestSubmit, pickerVars, kvVars>>

\* new Litepicker({... setup ...}): setup seeds the range when both ends are set
NewLitepicker ==
  IF currentFrom # Null /\ currentTo # Null
  THEN MkPicker(<<currentFrom, currentTo>>)
  ELSE MkPicker(Null)

\* the end of openPanel: picker.setDateRange if there is a picker and a range
ShowCurrentRange(p) ==
  IF p # Null /\ currentFrom # Null /\ currentTo # Null
  THEN setDateRange(p, currentFrom, currentTo)
  ELSE p

\* ShouldConstruct without the "!picker" test
ShouldConstructAlways == hasLitepicker

\* if (window.Litepicker && !picker)
ShouldConstruct == hasLitepicker /\ picker = Null

\* openPanel(): click on the summary button
openPanel ==
  /\ pickerReady
  /\ overlayHidden' = FALSE
  /\ panelHidden' = FALSE
  /\ picker' = ShowCurrentRange(IF ShouldConstruct THEN NewLitepicker ELSE picker)
  /\ Log("open", Null, IF ShouldConstruct THEN <<"new Litepicker">> ELSE <<>>)
  /\ submitted' = Null
  /\ UNCHANGED <<pickerReady, currentFrom, currentTo, hiddenFrom, hiddenTo,
                 fromInput, toInput, summaryLabel>>
  /\ UNCHANGED <<envVars, kvVars>>

\* closePanel that also resets the selection
closePanelResets ==
  /\ pickerReady
  /\ panelHidden' = TRUE
  /\ overlayHidden' = TRUE
  /\ currentFrom' = Null
  /\ currentTo' = Null
  /\ fromInput' = <<>>
  /\ toInput' = <<>>
  /\ Log("close", Null, <<>>) /\ submitted' = Null
  /\ UNCHANGED <<pickerReady, picker, hiddenFrom, hiddenTo, summaryLabel>>
  /\ UNCHANGED <<envVars, kvVars>>

\* closePanel(): click on the close button or on the overlay
closePanel ==
  /\ pickerReady
  /\ panelHidden' = TRUE
  /\ overlayHidden' = TRUE
  /\ Log("close", Null, <<>>) /\ submitted' = Null
  /\ UNCHANGED <<pickerReady, currentFrom, currentTo, picker, hiddenFrom, hiddenTo,
                 fromInput, toInput, summaryLabel>>
  /\ UNCHANGED <<envVars, kvVars>>

\* SetQuickRange without the "if (picker)" test
SetQuickRangeUnguarded(r) ==
  /\ currentFrom' = r[1]
  /\ currentTo' = r[2]
  /\ fromInput' = formatDateTime(r[1])
  /\ toInput' = formatDateTime(r[2])
  /\ picker' = setDateRange(picker, r[1], r[2])

\* the quick-range listener once r = computeQuickRange(key)
SetQuickRange(r) ==
  /\ currentFrom' = r[1]
  /\ currentTo' = r[2]
  /\ fromInput' = formatDateTime(r[1])
  /\ toInput' = formatDateTime(r[2])
  /\ picker' = IF picker # Null THEN setDateRange(picker, r[1], r[2]) ELSE picker

\* click on a [data-quick-range] button whose attribute is key, the clock reading now
QuickRangeClick(key, now) ==
  /\ pickerReady
  /\ SetQuickRange(computeQuickRange(key, now))
  /\ Log("quick", [key |-> key, now |-> now], <<>>) /\ submitted' = Null
  /\ UNCHANGED <<pickerReady, hiddenFrom, hiddenTo, summaryLabel, panelHidden, overlayHidden>>
  /\ UNCHANGED <<envVars, kvVars>>

\* SetSelectedRange writing the first endpoint into both visible inputs
SetSelectedRangeFromTwice(n1, n2) ==
  /\ currentFrom' = n1
  /\ currentTo' = n2
  /\ fromInput' = formatDateTime(n1)
  /\ toInput' = formatDateTime(n1)
  /\ picker' = MkPicker(<<n1, n2>>)

\* the "selected" listener with both endpoints, n1 and n2 being the two
\* dateInstance after setHours (which mutates the widget's own dates)
SetSelectedRange(n1, n2) ==
  /\ currentFrom' = n1
  /\ currentTo' = n2
  /\ fromInput' = formatDateTime(n1)
  /\ toInput' = formatDateTime(n2)
  /\ picker' = MkPicker(<<n1, n2>>)

\* the "selected" listener of the calendar widget, called with (date1, date2);
\* d1, d2 are the dateInstance of each, Null for a missing endpoint
PickerSelected(d1, d2) ==
  /\ picker # Null
  /\ IF d1 = Null \/ d2 = Null
     THEN /\ UNCHANGED <<currentFrom, currentTo, fromInput, toInput>>
          /\ picker' = MkPicker(<<d1, d2>>)
     ELSE SetSelectedRange(setHours(d1, 0, 0, 0, 0), setHours(d2, 23, 59, 59, 999))
  /\ Log("selected", [d1 |-> d1, d2 |-> d2], <<>>) /\ submitted' = Null
  /\ UNCHANGED <<pickerReady, hiddenFrom, hiddenTo, summaryLabel, panelHidden, overlayHidden>>
  /\ UNCHANGED <<envVars, kvVars>>

\* the user types text into the visible "from" input (no listener is attached to it)
TypeFrom(t) ==
  /\ pickerReady /\ ~panelHidden
  /\ fromInput' = t
  /\ Log("typeFrom", Null, <<>>) /\ submitted' = Null
  /\ UNCHANGED <<pickerReady, currentFrom, currentTo, picker, hiddenFrom, hiddenTo,
                 toInput, summaryLabel, panelHidden, overlayHidden>>
  /\ UNCHANGED <<envVars, kvVars>>

\* the user types text into the visible "to" input
TypeTo(t) ==
  /\ pickerReady /\ ~panelHidden
  /\ toInput' = t
  /\ Log("typeTo", Null, <<>>) /\ submitted' = Null
  /\ UNCHANGED <<pickerReady, currentFrom, currentTo, picker, hiddenFrom, hiddenTo,
                 fromInput, summaryLabel, panelHidden, overlayHidden>>
  /\ UNCHANGED <<envVars, kvVars>>

(***************************************************************************)
(* JavaScript values as JSON.parse builds them.  An object is its own      *)
(* enumerable properties in the order Object.keys / JSON.stringify         *)
(* enumerate them (array-index keys first, ascending, then the other keys  *)
(* in creation order) together with its prototype.                         *)
(* Number texts are the unsigned integers; the string escapes are those    *)
(* JSON.stringify writes for the modelled characters: \" \\ \t \n.          *)
(***************************************************************************)
Str(s) == [t |-> "str", s |-> s]
Num(n) == [t |-> "num", n |-> n]
Bool(b) == [t |-> "bool", b |-> b]
JNull == [t |-> "null"]
Arr(items) == [t |-> "arr", items |-> items]
DefaultProto == [t |-> "Object.prototype"]
ObjWith(props, proto) == [t |-> "obj", props |-> props, proto |-> proto]
Obj(props) == ObjWith(props, DefaultProto)
Prop(k, v) == [k |-> k, v |-> v]
EmptyObj == Obj(<<>>)

Quote == "\""
Backslash == "\\"

\* a canonical array index: "0", "1", ..., with no leading zero
IsIndexKey(k) == k # <<>> /\ AllDigits(k) /\ (Len(k) = 1 \/ k[1] # "0")

\* position of the own property k, 0 if there is none
KeyIndex(props, k) ==
  IF \E i \in 1..Len(props) : props[i].k = k
  THEN CHOOSE i \in 1..Len(props) : props[i].k = k
  ELSE 0

\* position at which a new own property k is enumerated
InsertPos(props, k) ==
  IF IsIndexKey(k)
  THEN 1 + Cardinality({i \in 1..Len(props) :
                          IsIndexKey(props[i].k) /\ StrToNum(props[i].k) < StrToNum(k)})
  ELSE Len(props) + 1

InsertAt(props, p, x) == SubSeq(props, 1, p - 1) \o <<x>> \o SubSeq(props, p, Len(props))

PutPropAt(props, i, k, v) ==
  IF i > 0 THEN [props EXCEPT ![i] = Prop(k, v)]
  ELSE InsertAt(props, InsertPos(props, k), Prop(k, v))

\* CreateDataProperty / [[Set]] of an own data property
PutProp(props, k, v) == PutPropAt(props, KeyIndex(props, k), k, v)

LitTrue == <<"t", "r", "u", "e">>
LitFalse == <<"f", "a", "l", "s", "e">>
LitNull == <<"n", "u", "l", "l">>

StartsWith(s, pre) == Len(s) >= Len(pre) /\ SubSeq(s, 1, Len(pre)) = pre

Drop(s, n) == SubSeq(s, n + 1, Len(s))

Fail == [ok |-> FALSE]
Done(v, rest) == [ok |-> TRUE, v |-> v, rest |-> rest]

\* JSON white space
RECURSIVE SkipWs(_)
SkipWs(s) == IF s # <<>> /\ Head(s) \in WhiteSpace THEN SkipWs(Tail(s)) ELSE s

\* the character an escape \c stands for
Unescape(c) == CASE c = "t" -> "\t" [] c = "n" -> "\n" [] OTHER -> c

\* the characters of a JSON string after its opening quote: [ok, v (the text), rest]
RECURSIVE ParseStringBody(_, _)
ParseStringBody(s, acc) ==
  IF s = <<>> THEN Fail
  ELSE IF Head(s) = Quote THEN Done(acc, Tail(s))
  ELSE IF Head(s) = Backslash
       THEN IF Len(s) >= 2 /\ s[2] \in {Quote, Backslash, "t", "n"}
            THEN ParseStringBody(Drop(s, 2), Append(acc, Unescape(s[2])))
            ELSE Fail
  ELSE IF Head(s) \in {"\t", "\n"} THEN Fail
  ELSE ParseStringBody(Tail(s), Append(acc, Head(s)))

RECURSIVE DigitRun(_)
DigitRun(s) == IF s # <<>> /\ IsDigit(Head(s)) THEN 1 + DigitRun(Tail(s)) ELSE 0

RECURSIVE ParseJsonValue(_)
RECURSIVE ParseElements(_, _)
RECURSIVE ParseMembers(_, _)

\* a value followed by white space
ThenWs(r) == IF r.ok THEN Done(r.v, SkipWs(r.rest)) ELSE Fail

StringToken(r) == IF r.ok THEN Done(Str(r.v), r.rest) ELSE Fail

\* a number of n digits at the head of s; a leading 0 stands alone
NumberToken(s, n) ==
  IF Head(s) = "0" THEN Done(Num(0), Tail(s))
  ELSE Done(Num(StrToNum(SubSeq(s, 1, n))), Drop(s, n))

\* after "[", white space skipped
ArrayAt(t) ==
  IF t # <<>> /\ Head(t) = "]" THEN Done(Arr(<<>>), Tail(t)) ELSE ParseElements(t, <<>>)

\* after "{", white space skipped
ObjectAt(t) ==
  IF t # <<>> /\ Head(t) = "}" THEN Done(EmptyObj, Tail(t)) ELSE ParseMembers(t, <<>>)

\* a JSON value at the head of s
ValueAt(s) ==
  IF s = <<>> THEN Fail
  ELSE IF Head(s) = Quote THEN StringToken(ParseStringBody(Tail(s), <<>>))
  ELSE IF IsDigit(Head(s)) THEN NumberToken(s, DigitRun(s))
  ELSE IF StartsWith(s, LitTrue) THEN Done(Bool(TRUE), Drop(s, 4))
  ELSE IF StartsWith(s, LitFalse) THEN Done(Bool(FALSE), Drop(s, 5))
  ELSE IF StartsWith(s, LitNull) THEN Done(JNull, Drop(s, 4))
  ELSE IF Head(s) = "[" THEN ArrayAt(SkipWs(Tail(s)))
  ELSE IF Head(s) = "{" THEN ObjectAt(SkipWs(Tail(s)))
  ELSE Fail

\* one JSON value with the white space around it: [ok, v, rest]
ParseJsonValue(s) == ThenWs(ValueAt(SkipWs(s)))

ElementsNext(r, acc) ==
  IF ~r.ok \/ r.rest = <<>> THEN Fail
  ELSE IF Head(r.rest) = "," THEN ParseElements(Tail(r.rest), Append(acc, r.v))
  ELSE IF Head(r.rest) = "]" THEN Done(Arr(Append(acc, r.v)), Tail(r.rest))
  ELSE Fail

\* the elements of an array up to and including its "]"
ParseElements(s, acc) == ElementsNext(ParseJsonValue(s), acc)

MemberNext(key, r, props) ==
  IF ~r.ok \/ r.rest = <<>> THEN Fail
  ELSE IF Head(r.rest) = "," THEN ParseMembers(Tail(r.rest), PutProp(props, key, r.v))
  ELSE IF Head(r.rest) = "}" THEN Done(Obj(PutProp(props, key, r.v)), Tail(r.rest))
  ELSE Fail

MemberValue(key, c, props) ==
  IF c = <<>> \/ Head(c) # ":" THEN Fail
  ELSE MemberNext(key, ParseJsonValue(Tail(c)), props)

MemberColon(k, props) == IF ~k.ok THEN Fail ELSE MemberValue(k.v, SkipWs(k.rest), props)

MemberKey(s, props) ==
  IF s = <<>> \/ Head(s) # Quote THEN Fail
  ELSE MemberColon(ParseStringBody(Tail(s), <<>>), props)

\* the members of an object up to and including its "}"
ParseMembers(s, props) == MemberKey(SkipWs(s), props)

WholeText(r) == IF r.ok /\ r.rest = <<>> THEN [ok |-> TRUE, v |-> r.v] ELSE Fail

\* JSON.parse(text): [ok |-> FALSE] when it throws SyntaxError
JSONparse(text) == WholeText(ParseJsonValue(text))

EscapeChar(c) ==
  CASE c \in {Quote, Backslash} -> <<Backslash, c>>
    [] c = "\t" -> <<Backslash, "t">>
    [] c = "\n" -> <<Backslash, "n">>
    [] OTHER -> <<c>>

RECURSIVE QuoteBody(_)
QuoteBody(s) == IF s = <<>> THEN <<>> ELSE EscapeChar(Head(s)) \o QuoteBody(Tail(s))

\* QuoteJSONString
QuoteJSONString(s) == <<Quote>> \o QuoteBody(s) \o <<Quote>>

RECURSIVE JSONstringify(_)
RECURSIVE JoinElements(_)
RECURSIVE JoinMembers(_)

\* JSON.stringify(v)
JSONstringify(v) ==
  CASE v.t = "str"  -> QuoteJSONString(v.s)
    [] v.t = "num"  -> NumToStr(v.n)
    [] v.t = "bool" -> IF v.b THEN LitTrue ELSE LitFalse
    [] v.t = "null" -> LitNull
    [] v.t = "arr"  -> <<"[">> \o JoinElements(v.items) \o <<"]">>
    [] v.t = "obj"  -> <<"{">> \o JoinMembers(v.props) \o <<"}">>

JoinElements(items) ==
  IF items = <<>> THEN <<>>
  ELSE JSONstringify(Head(items))
         \o (IF Len(items) > 1 THEN <<",">> \o JoinElements(Tail(items)) ELSE <<>>)

JoinMembers(props) ==
  IF props = <<>> THEN <<>>
  ELSE QuoteJSONString(Head(props).k) \o <<":">> \o JSONstringify(Head(props).v)
         \o (IF Len(props) > 1 THEN <<",">> \o JoinMembers(Tail(props)) ELSE <<>>)

(***************************************************************************)
(* kvjson.js                                                               *)
(***************************************************************************)
K_hasOwnProperty == <<"h", "a", "s", "O", "w", "n", "P", "r", "o", "p", "e", "r", "t", "y">>
K_proto == <<"_", "_", "p", "r", "o", "t", "o", "_", "_">>

\* try { return JSON.parse(text) } catch (e) { return text }
ParsedOrText(r, text) == IF r.ok THEN r.v ELSE Str(text)

\* parseValue(text)
parseValue(text) == IF text = <<>> THEN Str(<<>>) ELSE ParsedOrText(JSONparse(text), text)

\* toDisplay(val)
toDisplay(val) == IF val.t = "str" THEN val.s ELSE JSONstringify(val)

\* value="${text}" inside the innerHTML template: the HTML parser ends the
\* attribute value at the first double quote of the interpolated text
RECURSIVE AttrValue(_)
AttrValue(text) ==
  IF text = <<>> \/ Head(text) = Quote THEN <<>>
  ELSE <<Head(text)>> \o AttrValue(Tail(text))

\* buildRow(key, val): the values of the row's two inputs
buildRow(key, val) == [key |-> AttrValue(key), val |-> AttrValue(toDisplay(val))]

BlankRow == buildRow(<<>>, Str(<<>>))

\* data.hasOwnProperty resolves to Object.prototype.hasOwnProperty (a property
\* named "hasOwnProperty" found first on data or on its prototype is a JSON
\* value, which cannot be called; a null prototype leaves it undefined)
HasOwnPropertyCallable(data) ==
  /\ KeyIndex(data.props, K_hasOwnProperty) = 0
  /\ data.proto.t # "null"
  /\ data.proto.t = "obj" => KeyIndex(data.proto.props, K_hasOwnProperty) = 0

\* data[key] = v
SetMember(data, key, v) ==
  IF key = K_proto
  THEN IF v.t \in {"obj", "arr", "null"} THEN ObjWith(data.props, v) ELSE data
  ELSE ObjWith(PutProp(data.props, key, v), data.proto)

RECURSIVE SyncRows(_, _)

\* one callback of rows.forEach in syncHidden, key being the trimmed key text
SyncRow(key, rows, data) ==
  IF key = <<>> THEN SyncRows(Tail(rows), data)
  ELSE IF ~HasOwnPropertyCallable(data) THEN [threw |-> TRUE, data |-> data]
  ELSE IF KeyIndex(data.props, key) > 0 THEN SyncRows(Tail(rows), data)
  ELSE SyncRows(Tail(rows), SetMember(data, key, parseValue(Head(rows).val)))

\* rows.forEach(...) of syncHidden: [threw, data]
SyncRows(rows, data) ==
  IF rows = <<>> THEN [threw |-> FALSE, data |-> data]
  ELSE SyncRow(trim(Head(rows).key), rows, data)

\* hidden.value = JSON.stringify(data), not reached when the loop threw
WriteHidden(r, hidden) ==
  IF r.threw THEN [threw |-> TRUE, hidden |-> hidden]
  ELSE [threw |-> FALSE, hidden |-> JSONstringify(r.data)]

\* syncHidden(div): [threw, hidden], given the rows and the old hidden value
syncHidden(rows, hidden) == WriteHidden(SyncRows(rows, EmptyObj), hidden)

\* Object.keys(data) and data[k] for what JSON.parse can return
EntriesOf(v) ==
  CASE v.t = "obj" -> v.props
    [] v.t = "arr" -> [i \in 1..Len(v.items) |-> Prop(NumToStr(i - 1), v.items[i])]
    [] v.t = "str" -> [i \in 1..Len(v.s) |-> Prop(NumToStr(i - 1), Str(<<v.s[i]>>))]
    [] OTHER -> <<>>

RowsOf(es) == [i \in 1..Len(es) |-> buildRow(es[i].k, es[i].v)]

\* the rest of loadInitial once data is set: Object.keys(null) throws
LoadRows(data) ==
  IF data.t = "null" THEN [threw |-> TRUE, rows |-> <<>>]
  ELSE [threw |-> FALSE, rows |-> RowsOf(EntriesOf(data))]

\* let data = {}; try { data = JSON.parse(...) } catch (e) {}
ParsedOrEmpty(r) == IF r.ok THEN r.v ELSE EmptyObj

\* loadInitial(div): [threw, rows]
loadInitial(hidden) ==
  LoadRows(ParsedOrEmpty(JSONparse(IF hidden = <<>> THEN <<"{", "}">> ELSE hidden)))

\* the editor after addRow appended a row and syncHidden returned r
Added(rows, r) == [threw |-> r.threw, rows |-> rows, hidden |-> r.hidden]

\* addRow(div): [threw, rows, hidden]
addRow(rows, hidden) ==
  Added(Append(rows, BlankRow), syncHidden(Append(rows, BlankRow), hidden))

\* InitLoaded with the test for an empty table lost: a row is always added
InitLoadedAlwaysAdds(l, hidden) ==
  IF l.threw THEN [threw |-> TRUE, rows |-> l.rows, hidden |-> hidden]
  ELSE addRow(l.rows, hidden)

\* the rest of init(div) after loadInitial returned l
InitLoaded(l, hidden) ==
  IF l.threw THEN [threw |-> TRUE, rows |-> l.rows, hidden |-> hidden]
  ELSE IF l.rows = <<>> THEN addRow(l.rows, hidden)
  ELSE [threw |-> FALSE, rows |-> l.rows, hidden |-> hidden]

\* init(div): [threw, rows, hidden]
init(hidden) == InitLoaded(loadInitial(hidden), hidden)

RECURSIVE InitAll(_, _)

\* the state after init(editors[i]) returned r; an exception ends the forEach
InitNext(i, e, r, acc) ==
  IF r.threw
  THEN [st |-> [acc.st EXCEPT ![e] = "failed"],
        rows |-> [acc.rows EXCEPT ![e] = r.rows],
        hidden |-> acc.hidden, bound |-> acc.bound]
  ELSE InitAll(i + 1, [st |-> [acc.st EXCEPT ![e] = "ready"],
                       rows |-> [acc.rows EXCEPT ![e] = r.rows],
                       hidden |-> [acc.hidden EXCEPT ![e] = r.hidden],
                       bound |-> TRUE])

\* document.querySelectorAll("[data-kvjson]").forEach(init) from position i on
InitAll(i, acc) ==
  IF i > Len(editors) THEN acc
  ELSE InitNext(i, editors[i], init(acc.hidden[editors[i]]), acc)

SetEditors(r) ==
  /\ kvStatus' = r.st
  /\ kvRows' = r.rows
  /\ kvHidden' = r.hidden
  /\ formBound' = r.bound

\* the DOMContentLoaded handler of kvjson.js
KvLoad ==
  /\ editors # <<>>
  /\ \A i \in 1..Len(editors) : kvStatus[editors[i]] = "raw"
  /\ SetEditors(InitAll(1, [st |-> kvStatus, rows |-> kvRows, hidden |-> kvHidden,
                            bound |-> formBound]))
  /\ Log("kvLoad", Null, <<>>) /\ submitted' = Null
  /\ UNCHANGED <<editors, kvInitial>>
  /\ UNCHANGED <<envVars, pickerVars>>

\* a listener of editor e left the rows rows and called syncHidden, which returned r
Resynced(e, rows, r) ==
  /\ kvRows' = [kvRows EXCEPT ![e] = rows]
  /\ kvHidden' = [kvHidden EXCEPT ![e] = r.hidden]
  /\ effects' = IF r.threw THEN <<"TypeError">> ELSE <<>>

\* onChange: syncHidden(div)
onChange(e, rows) == Resynced(e, rows, syncHidden(rows, kvHidden[e]))

\* an input event from the key input (field = "key") or the value input
\* (field = "val") of row i of editor e, after the user made its text t
KvInput(e, i, field, t) ==
  /\ kvStatus[e] = "ready"
  /\ i \in 1..Len(kvRows[e])
  /\ kvRows[e][i][field] # t
  /\ onChange(e, [kvRows[e] EXCEPT ![i][field] = t])
  /\ lastOp' = "kvInput" /\ lastArg' = [e |-> e] /\ submitted' = Null
  /\ UNCHANGED <<editors, kvStatus, kvInitial, formBound>>
  /\ UNCHANGED <<envVars, pickerVars>>

\* the rows without row i
RemoveAt(rows, i) == SubSeq(rows, 1, i - 1) \o SubSeq(rows, i + 1, Len(rows))

\* onClick on the .kvjson-add button of editor e: addRow(div)
KvAddClick(e) ==
  /\ kvStatus[e] = "ready"
  /\ Len(kvRows[e]) < MaxRows
  /\ Resynced(e, Append(kvRows[e], BlankRow), addRow(kvRows[e], kvHidden[e]))
  /\ lastOp' = "kvAdd" /\ lastArg' = [e |-> e] /\ submitted' = Null
  /\ UNCHANGED <<editors, kvStatus, kvInitial, formBound>>
  /\ UNCHANGED <<envVars, pickerVars>>

\* onClick on the .kvjson-row-remove button of row i of editor e
KvRemoveClick(e, i) ==
  /\ kvStatus[e] = "ready"
  /\ i \in 1..Len(kvRows[e])
  /\ onChange(e, RemoveAt(kvRows[e], i))
  /\ lastOp' = "kvRemove" /\ lastArg' = [e |-> e] /\ submitted' = Null
  /\ UNCHANGED <<editors, kvStatus, kvInitial, formBound>>
  /\ UNCHANGED <<envVars, pickerVars>>

(***************************************************************************)
(* Form submission.  The editors and the range picker share the one form   *)
(* of the page.  A submit event runs the listener that init bound to the   *)
(* form; form.requestSubmit() and a user's submission fire that event,     *)
(* form.submit() serialises the form without firing it.                    *)
(***************************************************************************)
RECURSIVE SubmitListener(_, _)

\* syncHidden(editors[i]) returned r inside the listener's forEach
ListenerStep(i, e, r, hid) ==
  IF r.threw THEN [threw |-> TRUE, hidden |-> hid]
  ELSE SubmitListener(i + 1, [hid EXCEPT ![e] = r.hidden])

\* document.querySelectorAll(".kvjson-widget").forEach(syncHidden), from
\* position i on: [threw, hidden]
SubmitListener(i, hid) ==
  IF i > Len(editors) THEN [threw |-> FALSE, hidden |-> hid]
  ELSE ListenerStep(i, editors[i], syncHidden(kvRows[editors[i]], hid[editors[i]]), hid)

\* the submit event reaches the form: its listener runs if init bound one
DispatchSubmit ==
  IF formBound THEN SubmitListener(1, kvHidden)
  ELSE [threw |-> FALSE, hidden |-> kvHidden]

\* the form data set the browser builds from the hidden fields
FormData(from, to, kv) == [date_from |-> from, date_to |-> to, kv |-> kv]

\* the form is serialised after its submit event was dispatched with result r
SentAfterEvent(eff, from, to, r) ==
  /\ effects' = IF r.threw THEN eff \o <<"submitEvent", "TypeError">> ELSE eff \o <<"submitEvent">>
  /\ kvHidden' = r.hidden
  /\ submitted' = FormData(from, to, r.hidden)

\* the user submits the form (submit button, Enter key)
UserSubmit ==
  /\ SentAfterEvent(<<>>, hiddenFrom, hiddenTo, DispatchSubmit)
  /\ lastOp' = "userSubmit" /\ lastArg' = Null
  /\ UNCHANGED <<editors, kvStatus, kvRows, kvInitial, formBound>>
  /\ UNCHANGED <<envVars, pickerVars>>

(***************************************************************************)
(* The apply button                                                        *)
(***************************************************************************)
AlertMissing == "alert: Please enter valid 'From' and 'To'."
AlertInvalid == "alert: Invalid date/time."
AlertOrder == "alert: 'From' must be before 'To'."

\* no alert() call
NoAlert == ""

\* CheckParsed without its comparison of the two dates
CheckParsedUnordered(from, to) ==
  IF IsNaNDate(from) \/ IsNaNDate(to) THEN AlertInvalid ELSE NoAlert

\* the two checks on the parsed dates
CheckParsed(from, to) ==
  IF IsNaNDate(from) \/ IsNaNDate(to) THEN AlertInvalid
  ELSE IF DateGT(from, to) THEN AlertOrder
  ELSE NoAlert

\* the alert the apply handler raises, NoAlert when it raises none
ApplyAlert(fromText, toText, zone) ==
  IF fromText = <<>> \/ toText = <<>> THEN AlertMissing
  ELSE CheckParsed(NewDateStr(ReplaceFirstSpace(fromText), zone),
                   NewDateStr(ReplaceFirstSpace(toText), zone))

\* SubmitForm with the else lost: submit() is called after requestSubmit() too
SubmitFormNoElse(canRequestSubmit, from, to) ==
  IF canRequestSubmit
  THEN SentAfterEvent(<<"requestSubmit", "submit">>, from, to, DispatchSubmit)
  ELSE /\ effects' = <<"submit">>
       /\ kvHidden' = kvHidden
       /\ submitted' = FormData(from, to, kvHidden)

\* if (typeof filtersForm.requestSubmit === "function") ... else filtersForm.submit()
SubmitForm(canRequestSubmit, from, to) ==
  IF canRequestSubmit
  THEN SentAfterEvent(<<"requestSubmit">>, from, to, DispatchSubmit)
  ELSE /\ effects' = <<"submit">>
       /\ kvHidden' = kvHidden
       /\ submitted' = FormData(from, to, kvHidden)

\* CommitTexts with the two hidden fields exchanged
CommitTextsExchanged(hf, ht) ==
  /\ hiddenFrom' = ht
  /\ hiddenTo' = hf
  /\ summaryLabel' = RangeLabel(ht, hf)
  /\ panelHidden' = TRUE
  /\ overlayHidden' = TRUE
  /\ SubmitForm(hasRequestSubmit, ht, hf)

\* the handler from hiddenFrom.value = ... on, hf and ht being the formatted dates
CommitTexts(hf, ht) ==
  /\ hiddenFrom' = hf
  /\ hiddenTo' = ht
  /\ summaryLabel' = RangeLabel(hf, ht)
  /\ panelHidden' = TRUE
  /\ overlayHidden' = TRUE
  /\ SubmitForm(hasRequestSubmit, hf, ht)

\* the handler after its checks passed
Commit(from, to) ==
  /\ currentFrom' = from
  /\ currentTo' = to
  /\ CommitTexts(formatDateTime(from), formatDateTime(to))

\* the handler once its checks gave alert
Applied(alert) ==
  IF alert # NoAlert
  THEN /\ effects' = <<alert>>
       /\ submitted' = Null
       /\ UNCHANGED <<currentFrom, currentTo, hiddenFrom, hiddenTo, summaryLabel,
                      panelHidden, overlayHidden, kvHidden>>
  ELSE Commit(NewDateStr(ReplaceFirstSpace(fromInput), tz),
              NewDateStr(ReplaceFirstSpace(toInput), tz))

\* click on the apply button
Apply ==
  /\ pickerReady
  /\ Applied(ApplyAlert(fromInput, toInput, tz))
  /\ lastOp' = "apply" /\ lastArg' = Null
  /\ UNCHANGED <<pickerReady, picker, fromInput, toInput>>
  /\ UNCHANGED <<editors, kvStatus, kvRows, kvInitial, formBound>>
  /\ UNCHANGED envVars

(***************************************************************************)
(* The pages and the inputs explored                                       *)
(***************************************************************************)
\* the Date whose local wall clock reads y-m-d h:mi:s.ms
At(y, m, d, h, mi, s, ms) == MkDate(DaysFromCivil(y, m, d), ((h * 60 + mi) * 60 + s) * 1000 + ms)

\* the browser's offset from UTC, in minutes
TimeZones == {0, 180}

T_Early == <<"2", "0", "2", "4", "-", "0", "5", "-", "0", "9", " ", "1", "0", ":", "0", "0", ":", "0", "0">>
T_Late == <<"2", "0", "2", "4", "-", "0", "5", "-", "1", "0", " ", "1", "0", ":", "0", "0", ":", "0", "0">>
T_DateOnly == <<"2", "0", "2", "4", "-", "0", "5", "-", "1", "0">>
T_Garbage == <<"s", "o", "o", "n">>

\* the label the page is served with
ServedLabel == <<"S", "e", "l", "e", "c", "t", " ", "r", "a", "n", "g", "e">>

Now_Fri == At(2024, 5, 10, 8, 30, 15, 250)

\* a page without key/value editors
NoEditors ==
  /\ editors = <<>>
  /\ kvStatus = <<>>
  /\ kvRows = <<>>
  /\ kvHidden = <<>>
  /\ kvInitial = <<>>
  /\ formBound = FALSE

\* nothing has run yet
InitLog ==
  /\ lastOp = "served"
  /\ lastArg = Null
  /\ effects = <<>>
  /\ submitted = Null

\* the range picker as the page is served, its hidden fields holding pair
InitPickerFields(pair) ==
  /\ pickerReady = FALSE
  /\ currentFrom = Null
  /\ currentTo = Null
  /\ picker = Null
  /\ hiddenFrom = pair[1]
  /\ hiddenTo = pair[2]
  /\ fromInput = <<>>
  /\ toInput = <<>>
  /\ summaryLabel = ServedLabel
  /\ panelHidden = TRUE
  /\ overlayHidden = TRUE

\* the hidden field values the server renders
ApplyServedPairs == {<<<<>>, <<>>>>, <<T_Early, T_Late>>}

\* the texts a user leaves in a visible input
TypedTexts == {<<>>, T_Early, T_Late, T_DateOnly, T_Garbage}

InitApply ==
  /\ tz \in TimeZones
  /\ hasRequestSubmit \in BOOLEAN
  /\ hasLitepicker = FALSE
  /\ \E pair \in ApplyServedPairs : InitPickerFields(pair)
  /\ NoEditors
  /\ InitLog

NextApply ==
  \/ PickerLoad
  \/ openPanel
  \/ closePanel
  \/ QuickRangeClick(Text(K_last_12_hours), Now_Fri)
  \/ \E t \in TypedTexts : TypeFrom(t)
  \/ \E t \in TypedTexts : TypeTo(t)
  \/ Apply

\* the range picker alone: load, open and close, a quick range, typing, apply
SpecApply == InitApply /\ [][NextApply]_vars

\* the instants explored as "now"
Now_Sun == At(2024, 5, 12, 23, 59, 59, 999)
Now_Mon == At(2024, 5, 13, 0, 0, 0, 0)
Now_LeapFeb == At(2024, 2, 10, 12, 0, 0, 0)
Now_Mar1 == At(2024, 3, 1, 0, 30, 0, 0)
Now_NewYear == At(2025, 1, 1, 5, 0, 0, 0)
Now_Dec31 == At(2023, 12, 31, 18, 0, 0, 1)
Now_Feb28 == At(2023, 2, 28, 11, 59, 59, 0)
Now_Sep30 == At(2023, 9, 30, 23, 0, 0, 0)

ResolveNows ==
  {Now_Fri, Now_Sun, Now_Mon, Now_LeapFeb, Now_Mar1, Now_NewYear, Now_Dec31, Now_Feb28,
   Now_Sep30}

\* the keys of the switch of computeQuickRange
RecognizedKeys ==
  {K_today, K_yesterday, K_this_week, K_this_week_sp, K_this_month, K_this_month_sp,
   K_last_12_hours, K_last_24_hours, K_last_2_days, K_last_7_days}

KV_TodayUpper == <<"T", "O", "D", "A", "Y", " ", " ">>
KV_Last12Mixed == <<" ", "L", "a", "s", "t", "_", "1", "2", "_", "H", "o", "u", "r", "s", "\t">>
KV_ThisWeekUpper == <<"T", "h", "i", "s", "_", "W", "e", "e", "k">>
KV_YesterdayNl == <<"\n", "y", "e", "s", "t", "e", "r", "d", "a", "y">>
KV_Last7Upper == <<"L", "A", "S", "T", "_", "7", "_", "D", "A", "Y", "S", " ">>
KV_ThisMonthSpUpper == <<" ", "T", "H", "I", "S", " ", "M", "O", "N", "T", "H">>
KV_Unknown == <<"u", "n", "k", "n", "o", "w", "n", "-", "k", "e", "y">>
KV_TwoSpaces == <<"t", "h", "i", "s", " ", " ", "w", "e", "e", "k">>
KV_Blank == <<" ", " ">>
KV_Longer == <<"l", "a", "s", "t", "_", "1", "2", "_", "h", "o", "u", "r", "s", "_">>

\* the data-quick-range attribute values explored; Null is a missing attribute
ResolveKeys ==
  {Text(s) : s \in RecognizedKeys \cup
     {KV_TodayUpper, KV_Last12Mixed, KV_ThisWeekUpper, KV_YesterdayNl, KV_Last7Upper,
      KV_ThisMonthSpUpper, KV_Unknown, KV_TwoSpaces, KV_Blank, KV_Longer, <<>>}}
  \cup {Null}

InitResolve ==
  /\ tz = 0
  /\ hasRequestSubmit = TRUE
  /\ hasLitepicker \in BOOLEAN
  /\ InitPickerFields(<<<<>>, <<>>>>)
  /\ NoEditors
  /\ InitLog

NextResolve ==
  \/ PickerLoad
  \/ openPanel
  \/ closePanel
  \/ \E key \in ResolveKeys, now \in ResolveNows : QuickRangeClick(key, now)

\* the quick-range buttons, for every key and every "now" explored
SpecResolve == InitResolve /\ [][NextResolve]_vars

\* the hidden values a key/value editor is served with
D_Empty == <<>>
D_Braces == <<"{", "}">>
D_Bad == <<"{", "a">>
D_One == <<"{", "\"", "a", "\"", ":", "1", "}">>
D_StrNum == <<"{", "\"", "a", "\"", ":", "\"", "1", "\"", "}">>
D_Two == <<"{", "\"", "b", "\"", ":", "\"", "x", "\"", ",", "\"", "a", "\"", ":", "[", "1", "]", "}">>
D_Nested == <<"{", "\"", "a", "\"", ":", "{", "\"", "b", "\"", ":", "2", "}", "}">>
D_Null == <<"n", "u", "l", "l">>

KvDocuments == {D_Empty, D_Braces, D_Bad, D_One, D_StrNum, D_Two, D_Nested, D_Null}

\* the texts a user leaves in a key input
KvKeyTexts == {<<>>, <<"a">>, <<" ", "a">>, <<"1">>, K_hasOwnProperty, K_proto}

\* the texts a user leaves in a value input
KvValTexts == {<<>>, <<"1">>, <<"x">>}

\* the editors as the page is served, editor i holding served[i]
InitEditors(served) ==
  /\ editors = [i \in DOMAIN served |-> i]
  /\ kvStatus = [i \in DOMAIN served |-> "raw"]
  /\ kvRows = [i \in DOMAIN served |-> <<>>]
  /\ kvHidden = served
  /\ kvInitial = served
  /\ formBound = FALSE

InitKv ==
  /\ tz = 0
  /\ hasRequestSubmit = TRUE
  /\ hasLitepicker = FALSE
  /\ InitPickerFields(<<<<>>, <<>>>>)
  /\ \E d \in KvDocuments : InitEditors(<<d>>)
  /\ InitLog

NextKv ==
  \/ KvLoad
  \/ \E i \in 1..(MaxRows + 1), t \in KvKeyTexts : KvInput(1, i, "key", t)
  \/ \E i \in 1..(MaxRows + 1), t \in KvValTexts : KvInput(1, i, "val", t)
  \/ KvAddClick(1)
  \/ \E i \in 1..(MaxRows + 1) : KvRemoveClick(1, i)
  \/ UserSubmit

\* one key/value editor: load, edits of its rows, add, remove, submission
SpecKv == InitKv /\ [][NextKv]_vars

D_Three == <<"{", "\"", "a", "\"", ":", "1", ",", "\"", "b", "\"", ":", "t", "r", "u", "e", ",", "\"", "c", "\"", ":", "n", "u", "l", "l", "}">>
D_Spaced == <<"{", " ", "\"", "a", "\"", " ", ":", " ", "1", " ", "}">>
D_IndexKeys == <<"{", "\"", "b", "\"", ":", "1", ",", "\"", "1", "\"", ":", "2", "}">>
D_Quote == <<"{", "\"", "a", "\"", ":", "\"", "x", "\\", "\"", "y", "\"", "}">>
D_EmptyKey == <<"{", "\"", "\"", ":", "1", "}">>
D_Array == <<"[", "7", "]">>

LoadDocuments ==
  KvDocuments \cup {D_Three, D_Spaced, D_IndexKeys, D_Quote, D_EmptyKey, D_Array}

InitLoad ==
  /\ tz = 0
  /\ hasRequestSubmit = TRUE
  /\ hasLitepicker = FALSE
  /\ InitPickerFields(<<<<>>, <<>>>>)
  /\ \E d \in LoadDocuments : InitEditors(<<d>>)
  /\ InitLog

NextLoad ==
  \/ KvLoad
  \/ KvAddClick(1)
  \/ \E i \in 1..(MaxRows + 2) : KvRemoveClick(1, i)
  \/ UserSubmit

\* one key/value editor and the documents it is served with: load, add,
\* remove, submission
SpecLoad == InitLoad /\ [][NextLoad]_vars

\* the hidden values the two editors of the page are served with
PageDocuments == {<<D_StrNum, D_Braces>>, <<D_One, D_StrNum>>}

\* the texts a user leaves in a key input of the page
PageKeyTexts == {<<"a">>, K_hasOwnProperty}

InitPage ==
  /\ tz = 0
  /\ hasRequestSubmit \in BOOLEAN
  /\ hasLitepicker = FALSE
  /\ InitPickerFields(<<T_Early, T_Late>>)
  /\ \E served \in PageDocuments : InitEditors(served)
  /\ InitLog

NextPage ==
  \/ KvLoad
  \/ PickerLoad
  \/ \E e \in 1..2, i \in 1..(MaxRows + 1), t \in PageKeyTexts : KvInput(e, i, "key", t)
  \/ \E e \in 1..2 : KvAddClick(e)
  \/ UserSubmit
  \/ Apply

\* a page whose form holds the range picker and two key/value editors
SpecPage == InitPage /\ [][NextPage]_vars

\* the dates the calendar widget reports as selected
S_Thu == At(2024, 5, 9, 10, 0, 0, 0)
S_Sat == At(2024, 5, 11, 15, 30, 0, 0)

\* the (date1, date2) pairs of the widget's "selected" event; Null is a
\* missing endpoint
SelectedPairs == {<<S_Thu, S_Sat>>, <<S_Thu, S_Thu>>, <<S_Thu, Null>>, <<Null, Null>>}

\* the quick-range buttons clicked on the picker's page
PickerKeys == {Text(K_last_12_hours), Text(K_this_month)}

InitPicker ==
  /\ tz = 0
  /\ hasRequestSubmit = TRUE
  /\ hasLitepicker = FALSE
  /\ \E pair \in ApplyServedPairs : InitPickerFields(pair)
  /\ NoEditors
  /\ InitLog

NextPicker ==
  \/ PickerLoad
  \/ LitepickerLoads
  \/ openPanel
  \/ closePanel
  \/ \E key \in PickerKeys : QuickRangeClick(key, Now_Fri)
  \/ \E pair \in SelectedPairs : PickerSelected(pair[1], pair[2])
  \/ TypeFrom(T_Late)
  \/ TypeTo(T_Early)
  \/ Apply

\* the range picker with its calendar widget: load, the library becoming
\* available, open and close, quick ranges, calendar selections, typing, apply
SpecPicker == InitPicker /\ [][NextPicker]_vars

\* the data-quick-range attribute values of the quick-then-apply exploration
QuickKeys == {Text(s) : s \in RecognizedKeys \cup {KV_Last12Mixed, KV_Unknown}} \cup {Null}

\* its clock readings: mid-morning, and early on the first day of a year
QuickNows == {Now_Fri, Now_NewYear}

InitQuick ==
  /\ tz = 180
  /\ hasRequestSubmit \in BOOLEAN
  /\ hasLitepicker = TRUE
  /\ InitPickerFields(<<<<>>, <<>>>>)
  /\ NoEditors
  /\ InitLog

NextQuick ==
  \/ PickerLoad
  \/ openPanel
  \/ \E key \in QuickKeys, now \in QuickNows : QuickRangeClick(key, now)
  \/ Apply

\* quick ranges and apply: load, open, every quick-range button, apply
SpecQuick == InitQuick /\ [][NextQuick]_vars

\* the hidden field values a page is served with
ServedTexts == {<<>>, T_Early, T_Late, T_DateOnly, T_Garbage}

InitServed ==
  /\ tz \in TimeZones
  /\ hasRequestSubmit = TRUE
  /\ hasLitepicker = FALSE
  /\ \E f \in ServedTexts, t \in ServedTexts : InitPickerFields(<<f, t>>)
  /\ NoEditors
  /\ InitLog

NextServed ==
  \/ PickerLoad
  \/ LitepickerLoads
  \/ openPanel
  \/ closePanel

\* the page load of the range picker, for every pair of served hidden values
SpecServed == InitServed /\ [][NextServed]_vars

(***************************************************************************)
(* Properties                                                              *)
(***************************************************************************)
\* the text parses to an instant: new Date(text.replace(" ", "T")) is a valid Date
Parsed(text) == NewDateStr(ReplaceFirstSpace(text), tz)

\* one of the three failure cases of apply holds of the visible inputs
ApplyMustFail ==
  \/ fromInput = <<>>
  \/ toInput = <<>>
  \/ IsNaNDate(Parsed(fromInput))
  \/ IsNaNDate(Parsed(toInput))
  \/ ~DateLE(Parsed(fromInput), Parsed(toInput))

\* C1: a failed apply has no effect.  Whenever apply is clicked while a
\* visible input is empty, or does not parse to an instant, or the parsed
\* "from" is strictly later than the parsed "to", the handler raises exactly
\* one alert, submits nothing, and leaves both hidden fields, the summary
\* label, currentFrom, currentTo and the panel's open state as they were.
C1_FailedApplyNoEffect ==
  [][(lastOp' = "apply" /\ ApplyMustFail) =>
       /\ effects' \in {<<AlertMissing>>, <<AlertInvalid>>, <<AlertOrder>>}
       /\ submitted' = Null
       /\ UNCHANGED <<hiddenFrom, hiddenTo, summaryLabel, currentFrom, currentTo,
                      panelHidden, overlayHidden>>]_vars

\* an apply with "from" later than "to" was refused while the hidden fields
\* held a range and the panel was open
C1_Witness ==
  /\ lastOp = "apply"
  /\ effects = <<AlertOrder>>
  /\ fromInput = T_Late /\ toInput = T_Early
  /\ hiddenFrom = T_Early /\ hiddenTo = T_Late
  /\ ~panelHidden

\* the calls in eff that submit the form
Submissions(eff) == {i \in DOMAIN eff : eff[i] \in {"requestSubmit", "submit"}}

\* C2: a successful apply commits and submits exactly once.  Whenever apply
\* is clicked while both visible inputs are non-empty, parse to instants and
\* from <= to, the handler sets the two hidden fields to the formatted parsed
\* dates, the label to "<from> -> <to>" of those strings, closes the panel,
\* and makes exactly one submitting call: requestSubmit if the form has it,
\* otherwise submit.
C2_SuccessfulApplyCommitsOnce ==
  [][(lastOp' = "apply" /\ ~ApplyMustFail) =>
       /\ hiddenFrom' = formatDateTime(Parsed(fromInput))
       /\ hiddenTo' = formatDateTime(Parsed(toInput))
       /\ summaryLabel' = hiddenFrom' \o Arrow \o hiddenTo'
       /\ panelHidden' /\ overlayHidden'
       /\ Cardinality(Submissions(effects')) = 1
       /\ effects'[1] = (IF hasRequestSubmit THEN "requestSubmit" ELSE "submit")
       /\ submitted' = FormData(hiddenFrom', hiddenTo', kvHidden')]_vars

\* an apply with from = to was committed from an open panel's inputs
C2_Witness ==
  /\ lastOp = "apply"
  /\ fromInput = T_Early /\ toInput = T_Early
  /\ hiddenFrom = T_Early /\ hiddenTo = T_Early
  /\ panelHidden
  /\ submitted # Null

\* C9: quick ranges are ordered and deterministic.  After a click on a
\* quick-range button with a recognized key, whatever the state it was
\* clicked in, currentFrom <= currentTo, and the pair stored is the one that
\* the key and the clock reading determine.
C9_QuickRangeOrdered ==
  (lastOp = "quick" /\ NormalizeKey(lastArg.key) \in RecognizedKeys) =>
     /\ currentFrom.kind = "date" /\ currentTo.kind = "date"
     /\ DateLE(currentFrom, currentTo)
     /\ <<currentFrom, currentTo>> = computeQuickRange(lastArg.key, lastArg.now)

\* "this_month" was resolved on the last day of a December
C9_Witness ==
  /\ lastOp = "quick"
  /\ lastArg.key = Text(K_this_month)
  /\ lastArg.now = Now_Dec31
  /\ currentFrom # currentTo

\* the key as the table is matched against it: lower-cased, surrounding
\* whitespace removed; a missing key is the empty key
KeyAfterNormalization(key) == toLowerCase(trim(IF key = Null THEN <<>> ELSE key.s))

\* [start-of-day(now), end-of-day(now)]
ExpectedToday(now) == <<MkDate(now.day, 0), MkDate(now.day, MsPerDay - 1)>>

\* C10: key normalization and default.  The range a quick-range click stores
\* is the range of the lower-cased, trimmed key (so keys equal after that
\* normalization give the same range); a key that is not in the table after
\* normalization, the empty and the missing key included, gives exactly
\* [start-of-day(now), end-of-day(now)]; no error is signalled.
C10_KeyNormalizationAndDefault ==
  lastOp = "quick" =>
     /\ <<currentFrom, currentTo>> =
          computeQuickRange(Text(KeyAfterNormalization(lastArg.key)), lastArg.now)
     /\ KeyAfterNormalization(lastArg.key) \notin RecognizedKeys =>
          <<currentFrom, currentTo>> = ExpectedToday(lastArg.now)
     /\ effects = <<>>

\* a key written with capitals and surrounding whitespace selected a range
\* other than today's
C10_Witness ==
  /\ lastOp = "quick"
  /\ lastArg.key = Text(KV_Last12Mixed)
  /\ <<currentFrom, currentTo>> # ExpectedToday(lastArg.now)

\* the handlers that end with a resync of the editor
EditOps == {"kvInput", "kvAdd", "kvRemove"}

\* C3: the key/value hidden field stays in sync.  After every handler for a
\* key or value input change, an add-row click or a remove-row click, the
\* handler has completed without an exception and the editor's hidden field
\* is the JSON serialization of the resync of the editor's current rows.
C3_HiddenInSync ==
  lastOp \in EditOps =>
     /\ effects = <<>>
     /\ ~SyncRows(kvRows[lastArg.e], EmptyObj).threw
     /\ kvHidden[lastArg.e] = JSONstringify(SyncRows(kvRows[lastArg.e], EmptyObj).data)

\* the value of the JSON text, Null when it is not JSON
Decoded(r) == IF r.ok THEN r.v ELSE Null

\* the text is a key/value document: a JSON object
IsDocument(text) == Decoded(JSONparse(text)) # Null /\ Decoded(JSONparse(text)).t = "obj"

\* the rows are those that loading the text leaves, untouched
AsLoaded(rows, text) == ~loadInitial(text).threw /\ rows = loadInitial(text).rows

\* every editor of the page was initialized
AllInitialized == \A e \in DOMAIN kvStatus : kvStatus[e] = "ready"

\* C4: resync precedes every submission.  Whenever the form enclosing the
\* initialized editors is submitted, by the user or by the range picker's
\* apply, the resync of every editor has run to completion before the form
\* data were built: the submitted hidden value of every editor is the JSON
\* serialization of the resync of its rows.
C4_ResyncPrecedesSubmission ==
  (submitted # Null /\ AllInitialized) =>
     /\ "TypeError" \notin {effects[i] : i \in DOMAIN effects}
     /\ \A e \in DOMAIN kvRows :
          /\ ~SyncRows(kvRows[e], EmptyObj).threw
          /\ submitted.kv[e] = JSONstringify(SyncRows(kvRows[e], EmptyObj).data)

\* C5: load/resync round trip.  When a key/value document is loaded into
\* rows and resynced (by a submission) with no edit in between, the hidden
\* document written has the same keys in the same order and the same decoded
\* value for each key as the document loaded.
C5_LoadResyncRoundTrip ==
  (/\ lastOp = "userSubmit"
   /\ IsDocument(kvInitial[1])
   /\ AsLoaded(kvRows[1], kvInitial[1])) =>
     Decoded(JSONparse(kvHidden[1])) = Decoded(JSONparse(kvInitial[1]))

RECURSIVE AcceptedKeys(_, _)
\* the distinct trimmed keys of the rows whose key is non-empty after
\* trimming, in order of first occurrence, appended to acc
AcceptedKeys(rows, acc) ==
  IF rows = <<>> THEN acc
  ELSE IF trim(Head(rows).key) = <<>> \/ \E i \in DOMAIN acc : acc[i] = trim(Head(rows).key)
       THEN AcceptedKeys(Tail(rows), acc)
       ELSE AcceptedKeys(Tail(rows), Append(acc, trim(Head(rows).key)))

\* the value text of the first row whose trimmed key is k
FirstValueText(rows, k) ==
  rows[CHOOSE i \in DOMAIN rows :
         /\ trim(rows[i].key) = k
         /\ \A j \in 1..(i - 1) : trim(rows[j].key) # k].val

\* the decoded value of a value text: the empty string for an empty text, the
\* JSON value of a JSON text, the text itself otherwise
ExpectedDecodeOf(r, text) == IF text = <<>> \/ ~r.ok THEN Str(text) ELSE r.v

ExpectedDecode(text) == ExpectedDecodeOf(JSONparse(text), text)

\* the document maps key k to value v
MapsTo(doc, k, v) ==
  /\ doc # Null
  /\ doc.t = "obj"
  /\ \E i \in DOMAIN doc.props : doc.props[i].k = k /\ doc.props[i].v = v

\* C6: duplicate keys, first occurrence wins.  After the resync of any row
\* list, the document written maps every accepted key to the decoded value
\* of the first row with that trimmed key, the decoded value being the empty
\* string for an empty text, the JSON value of a JSON text, the raw text
\* otherwise.
C6_FirstOccurrenceWins ==
  lastOp \in EditOps =>
     \A i \in DOMAIN AcceptedKeys(kvRows[1], <<>>) :
        MapsTo(Decoded(JSONparse(kvHidden[1])),
               AcceptedKeys(kvRows[1], <<>>)[i],
               ExpectedDecode(FirstValueText(kvRows[1], AcceptedKeys(kvRows[1], <<>>)[i])))

\* the keys of a document, in the order of its text
KeysOf(doc) == IF doc # Null /\ doc.t = "obj" THEN [i \in DOMAIN doc.props |-> doc.props[i].k] ELSE Null

\* C7: key set of the resynced document.  After a resync of any row list,
\* the keys of the document written are exactly the distinct trimmed keys of
\* the rows whose key is non-empty after trimming, in order of first
\* occurrence.
C7_KeysInFirstOccurrenceOrder ==
  lastOp \in EditOps =>
     KeysOf(Decoded(JSONparse(kvHidden[1]))) = AcceptedKeys(kvRows[1], <<>>)

\* the initial hidden value is an empty document
IsEmptyDocument(text) == text = <<>> \/ text = <<"{", "}">> \/ ~JSONparse(text).ok

\* the number of entries of a document
EntryCount(doc) == Len(doc.props)

\* C8: bootstrap row.  After initialization, an editor whose initial hidden
\* value was an empty document (empty string, "{}", or text that fails to
\* parse) has exactly one blank row, and an editor whose initial document
\* had n >= 1 entries has exactly n rows.
C8_BootstrapRow ==
  lastOp = "kvLoad" =>
     \A e \in DOMAIN kvStatus :
        kvStatus[e] = "ready" =>
           /\ IsEmptyDocument(kvInitial[e]) =>
                kvRows[e] = <<[key |-> <<>>, val |-> <<>>]>>
           /\ (IsDocument(kvInitial[e]) /\ EntryCount(Decoded(JSONparse(kvInitial[e]))) >= 1) =>
                Len(kvRows[e]) = EntryCount(Decoded(JSONparse(kvInitial[e])))

\* an editor served with text that is not JSON was given its blank row
C8_Witness ==
  /\ lastOp = "kvLoad"
  /\ kvInitial[1] = D_Bad
  /\ kvStatus[1] = "ready"
  /\ kvRows[1] = <<[key |-> <<>>, val |-> <<>>]>>

\* the day number of the latest Monday on or before day (1970-01-05, day 4,
\* was a Monday)
MondayOnOrBefore(day) == CHOOSE d \in (day - 6)..day : (d - 4) % 7 = 0

\* C11: this_week starts on Monday.  After a click on the "this_week" button
\* (or its alias "this week"), currentFrom is 00:00:00.000 of the latest
\* Monday on or before now's date and currentTo is the last millisecond of
\* now's date, also when that Monday lies in the previous month or year.
C11_ThisWeekStartsMonday ==
  (lastOp = "quick" /\ KeyAfterNormalization(lastArg.key) \in {K_this_week, K_this_week_sp}) =>
     /\ currentFrom = MkDate(MondayOnOrBefore(lastArg.now.day), 0)
     /\ currentTo = MkDate(lastArg.now.day, MsPerDay - 1)

\* "this_week" was resolved on a Sunday: the range starts six days earlier
C11_Witness ==
  /\ lastOp = "quick"
  /\ lastArg.key = Text(K_this_week)
  /\ lastArg.now = Now_Sun
  /\ currentFrom = MkDate(Now_Sun.day - 6, 0)
  /\ currentTo.day = Now_Sun.day

\* the year y is a leap year
IsLeapYear(y) == (y % 4 = 0 /\ y % 100 # 0) \/ y % 400 = 0

\* the number of the last day of month m (1..12) of year y
LastDayOfMonth(y, m) ==
  IF m = 2 THEN (IF IsLeapYear(y) THEN 29 ELSE 28)
  ELSE IF m \in {4, 6, 9, 11} THEN 30
  ELSE 31

\* [00:00:00.000 of day 1, 23:59:59.999 of the last day] of month m of year y
WholeMonth(y, m) ==
  <<MkDate(DaysFromCivil(y, m, 1), 0),
    MkDate(DaysFromCivil(y, m, LastDayOfMonth(y, m)), MsPerDay - 1)>>

\* C12: this_month covers the whole calendar month.  After a click on the
\* "this_month" button (or its alias "this month"), currentFrom is 00:00:00
\* on day 1 of now's month and currentTo is 23:59:59 on the last day of that
\* month, for months of 28, 29, 30 and 31 days and for December.
C12_ThisMonthWholeMonth ==
  (lastOp = "quick" /\ KeyAfterNormalization(lastArg.key) \in {K_this_month, K_this_month_sp}) =>
     /\ <<currentFrom, currentTo>> =
          WholeMonth(CivilFromDays(lastArg.now.day).y, CivilFromDays(lastArg.now.day).m)
     /\ formatDateTime(currentTo)[12] = "2" /\ SubSeq(formatDateTime(currentTo), 13, 19) =
          <<"3", ":", "5", "9", ":", "5", "9">>

\* "this_month" was resolved in the February of a leap year
C12_Witness ==
  /\ lastOp = "quick"
  /\ lastArg.key = Text(K_this_month)
  /\ lastArg.now = Now_LeapFeb
  /\ currentFrom = At(2024, 2, 1, 0, 0, 0, 0)
  /\ currentTo = At(2024, 2, 29, 23, 59, 59, 999)

\* C13: hidden date fields change only by a successful apply.  Every step
\* that changes hiddenFrom or hiddenTo is an apply click that raised no
\* alert and submitted the form; it writes both fields together, as the
\* formatted dates parsed from the visible inputs, and the pair written
\* satisfies from <= to.  No load, open, close, quick-range or calendar
\* selection step changes either field.
C13_HiddenChangesOnlyByApply ==
  [][(hiddenFrom' # hiddenFrom \/ hiddenTo' # hiddenTo) =>
       /\ lastOp' = "apply"
       /\ Cardinality(Submissions(effects')) = 1
       /\ hiddenFrom' = formatDateTime(Parsed(fromInput))
       /\ hiddenTo' = formatDateTime(Parsed(toInput))
       /\ ~IsNaNDate(Parsed(hiddenFrom')) /\ ~IsNaNDate(Parsed(hiddenTo'))
       /\ DateLE(Parsed(hiddenFrom'), Parsed(hiddenTo'))]_vars

\* a calendar selection was applied: the hidden fields hold its whole-day
\* range instead of the served one
C13_Witness ==
  /\ lastOp = "apply"
  /\ submitted # Null
  /\ hiddenFrom = formatDateTime(At(2024, 5, 9, 0, 0, 0, 0))
  /\ hiddenTo = formatDateTime(At(2024, 5, 11, 23, 59, 59, 0))

\* C14: close retains state.  A close (close button or overlay click) hides
\* the panel and the overlay and changes none of currentFrom, currentTo, the
\* two visible inputs, the two hidden fields, the summary label and the
\* calendar widget; the open that follows it shows the panel with the same
\* selection.
C14_CloseRetainsState ==
  [][/\ lastOp' = "close" =>
          /\ panelHidden' /\ overlayHidden'
          /\ UNCHANGED <<currentFrom, currentTo, fromInput, toInput, hiddenFrom,
                         hiddenTo, summaryLabel, picker>>
     /\ (lastOp = "close" /\ lastOp' = "open") =>
          /\ ~panelHidden' /\ ~overlayHidden'
          /\ UNCHANGED <<currentFrom, currentTo, fromInput, toInput, hiddenFrom,
                         hiddenTo, summaryLabel>>]_vars

\* the open panel was closed while a calendar selection was current
C14_Witness ==
  /\ lastOp = "close"
  /\ panelHidden /\ overlayHidden
  /\ picker # Null
  /\ currentFrom = At(2024, 5, 9, 0, 0, 0, 0)
  /\ fromInput = formatDateTime(currentFrom)

\* the calls in eff that construct a calendar widget
Constructions(eff) == {i \in DOMAIN eff : eff[i] = "new Litepicker"}

\* C15: the calendar widget is constructed at most once.  A step constructs
\* the widget exactly when it is an open taken while the calendar library is
\* available and no widget exists yet; once a widget exists it is kept and no
\* step constructs another.  A widget constructed while currentFrom and
\* currentTo are both set shows that range, and every open that ends with a
\* widget while both endpoints are set leaves the widget showing
\* (currentFrom, currentTo).
C15_WidgetConstructedOnce ==
  [][/\ Constructions(effects') # {} <=>
          (lastOp' = "open" /\ hasLitepicker /\ picker = Null)
     /\ Cardinality(Constructions(effects')) <= 1
     /\ picker # Null => picker' # Null
     /\ (picker = Null /\ picker' # Null) => Constructions(effects') # {}
     /\ (lastOp' = "open" /\ picker' # Null /\ currentFrom # Null /\ currentTo # Null) =>
          /\ picker'.range = <<currentFrom, currentTo>>
          /\ UNCHANGED <<currentFrom, currentTo>>]_vars

\* the panel was opened again while the widget existed: nothing was
\* constructed and the widget shows the current range
C15_Witness ==
  /\ lastOp = "open"
  /\ hasLitepicker
  /\ picker # Null
  /\ effects = <<>>
  /\ currentFrom = At(2024, 5, 9, 20, 30, 15, 250)
  /\ currentTo = Now_Fri
  /\ picker.range = <<currentFrom, currentTo>>

\* what a quick-range click that resolved to r leaves behind
QuickRangeShown(r) ==
  /\ currentFrom' = r[1]
  /\ currentTo' = r[2]
  /\ fromInput' = formatDateTime(r[1])
  /\ toInput' = formatDateTime(r[2])
  /\ picker # Null => picker' # Null /\ picker'.range = r
  /\ picker = Null => picker' = Null

\* C16: quick-range selection.  A click on a quick-range button with key k
\* sets (currentFrom, currentTo) to resolve(k), sets both visible inputs to
\* the formatted endpoints of that range and, exactly when the calendar widget
\* already exists, sets the widget's displayed range to the same pair; when
\* there is no widget the click creates none.
C16_QuickRangeSelection ==
  [][lastOp' = "quick" =>
       /\ QuickRangeShown(computeQuickRange(lastArg'.key, lastArg'.now))
       /\ Constructions(effects') = {}]_vars

\* "last 7 days" was clicked on Friday 2024-05-10 while the widget existed
C16_Witness ==
  /\ lastOp = "quick"
  /\ lastArg = [key |-> Text(K_last_7_days), now |-> Now_Fri]
  /\ submitted = Null
  /\ currentFrom = At(2024, 5, 4, 0, 0, 0, 0)
  /\ currentTo = At(2024, 5, 10, 23, 59, 59, 999)
  /\ toInput = formatDateTime(currentTo)
  /\ picker # Null
  /\ picker.range = <<currentFrom, currentTo>>

\* the first instant of the local day of d
StartOfDay(d) == MkDate(d.day, 0)

\* the last millisecond of the local day of d
EndOfDay(d) == MkDate(d.day, MsPerDay - 1)

\* C17: calendar selections are whole-day ranges.  When the widget reports a
\* selection with both endpoints present, currentFrom becomes the start of the
\* first endpoint's day and currentTo the end of the second endpoint's day,
\* whatever their times of day, and both visible inputs show these values;
\* when an endpoint is missing, currentFrom, currentTo and the visible inputs
\* are unchanged.
C17_CalendarSelectionWholeDays ==
  [][lastOp' = "selected" =>
       IF lastArg'.d1 # Null /\ lastArg'.d2 # Null
       THEN /\ currentFrom' = StartOfDay(lastArg'.d1)
            /\ currentTo' = EndOfDay(lastArg'.d2)
            /\ fromInput' = formatDateTime(StartOfDay(lastArg'.d1))
            /\ toInput' = formatDateTime(EndOfDay(lastArg'.d2))
       ELSE UNCHANGED <<currentFrom, currentTo, fromInput, toInput>>]_vars

\* the widget reported Thursday 10:00 to Saturday 15:30
C17_Witness ==
  /\ lastOp = "selected"
  /\ lastArg = [d1 |-> S_Thu, d2 |-> S_Sat]
  /\ currentFrom = At(2024, 5, 9, 0, 0, 0, 0)
  /\ currentTo = At(2024, 5, 11, 23, 59, 59, 999)
  /\ fromInput = formatDateTime(At(2024, 5, 9, 0, 0, 0, 0))
  /\ toInput = formatDateTime(At(2024, 5, 11, 23, 59, 59, 0))

\* the endpoint a served hidden text stands for: "YYYY-MM-DD HH:MM:SS" is that
\* local time, "YYYY-MM-DD" is the start of that local day, any other text
\* (or none) is no endpoint
EndpointOf(text) ==
  IF Len(text) = 10 /\ IsoDateOk(text) THEN MkDate(IsoDay(text), 0)
  ELSE IF IsoDateOk(text) /\ IsoTimeOk(ReplaceFirstSpace(text))
       THEN MkDate(IsoDay(text), IsoMs(text))
       ELSE Null

\* what the page load leaves for the endpoints cf and ct
LoadedFrom(cf, ct) ==
  /\ currentFrom = cf
  /\ currentTo = ct
  /\ IF cf # Null /\ ct # Null
     THEN /\ fromInput = formatDateTime(cf)
          /\ toInput = formatDateTime(ct)
          /\ summaryLabel = RangeLabel(formatDateTime(cf), formatDateTime(ct))
     ELSE /\ fromInput = <<>>
          /\ toInput = <<>>
          /\ summaryLabel = ServedLabel

\* C18: initialize from hidden fields.  At page load each hidden value that
\* parses, as "YYYY-MM-DD HH:MM:SS" or as "YYYY-MM-DD" normalized to the
\* start of its day, sets the corresponding current endpoint, and each empty
\* or unparseable value leaves it null with no error raised; the visible
\* inputs and the summary label are populated if and only if both endpoints
\* parsed, and then they show the formatted endpoints.
C18_InitializeFromHidden ==
  lastOp = "pickerLoad" =>
     /\ effects = <<>>
     /\ LoadedFrom(EndpointOf(hiddenFrom), EndpointOf(hiddenTo))

\* one row per entry of es, in order, showing the entry's key and its value
ShownRows(es) == [i \in 1..Len(es) |-> [key |-> es[i].k, val |-> toDisplay(es[i].v)]]

\* the rows an editor holds after loading the document doc
RowsShow(rows, doc) ==
  IF EntryCount(doc) = 0 THEN rows = <<[key |-> <<>>, val |-> <<>>]>>
  ELSE rows = ShownRows(EntriesOf(doc))

\* C19: load of the key/value document.  For every initial hidden value the
\* load completes without error; an empty string or text that is not JSON
\* gives the empty document (no row but the bootstrap row), and a JSON
\* object gives exactly one row per entry, in the document's key order, each
\* row showing that entry's key and value.
C19_LoadKeyValueDocument ==
  lastOp = "kvLoad" =>
     \A e \in DOMAIN kvStatus :
        /\ kvStatus[e] = "ready"
        /\ IsEmptyDocument(kvInitial[e]) =>
             kvRows[e] = <<[key |-> <<>>, val |-> <<>>]>>
        /\ IsDocument(kvInitial[e]) =>
             RowsShow(kvRows[e], Decoded(JSONparse(kvInitial[e])))

\* what an apply leaves behind that committed the range r and submitted
AppliedRange(r) ==
  /\ hiddenFrom' = formatDateTime(r[1])
  /\ hiddenTo' = formatDateTime(r[2])
  /\ Cardinality(Submissions(effects')) = 1
  /\ \A i \in DOMAIN effects' : effects'[i] \notin {AlertMissing, AlertInvalid, AlertOrder}
  /\ submitted' # Null
  /\ submitted'.date_from = formatDateTime(r[1])
  /\ submitted'.date_to = formatDateTime(r[2])

\* C20: a quick range can always be applied.  In every reachable state, for
\* every quick-range key and every "now", a click on the quick-range button
\* followed by apply, with no edit of the visible inputs in between, raises
\* no alert, sets the hidden fields to the formatted endpoints of
\* resolve(key) and submits the form.
C20_QuickRangeThenApply ==
  [][(lastOp = "quick" /\ lastOp' = "apply") =>
       AppliedRange(computeQuickRange(lastArg.key, lastArg.now))]_vars

\* "last 12 hours" clicked at 05:00 on 2025-01-01, then applied
C20_Witness ==
  /\ lastOp = "apply"
  /\ submitted # Null
  /\ Submissions(effects) # {}
  /\ hiddenFrom = formatDateTime(At(2024, 12, 31, 17, 0, 0, 0))
  /\ hiddenTo = formatDateTime(Now_NewYear)

====
